---- MODULE Spec2Model ----
(***************************************************************************)
(* Model of src/index.ts: the jokes MCP server.                            *)
(*                                                                         *)
(* Part 1 (Spec): the session transport map.  GET /sse registers a         *)
(* transport under its session id, the close listener removes it, and      *)
(* POST /jokes routes a message to the transport of its sessionId.  Every  *)
(* transport is connected to the one module-level McpServer object.        *)
(*                                                                         *)
(* Part 2 (SpecTools): the seven tool handlers, each run step by step on   *)
(* an argument and an upstream behaviour drawn from bounded sets.          *)
(***************************************************************************)
EXTENDS Naturals, Sequences, FiniteSets, TLC

VARIABLES conns, transports, serverTransport, reqs, sse, inv

vars == <<conns, transports, serverTransport, reqs, sse, inv>>

sessionVars == <<conns, transports, serverTransport, reqs, sse>>

(***************************************************************************)
(* Bounds.                                                                 *)
(***************************************************************************)
\* how many /sse connections are opened in one behaviour
MaxConns == 2

\* how many /jokes posts are made in one behaviour
MaxPosts == 2

(***************************************************************************)
(* Part 2, pure part: the tool handlers as functions of their argument and *)
(* of what the upstream does.                                              *)
(***************************************************************************)

Tools == {"get-chuck-joke", "get-chuck-categories", "get-dad-joke", "get-yo-mama-joke",
          "get-country-data", "get-zip-info", "get-city-details"}

\* the value of a parameter the caller left out
Undefined == "#undefined"

\* the arguments each handler is tried on (its one parameter, if it has one)
ArgsOf(tool) ==
    CASE tool = "get-zip-info" -> {Undefined, "", "90210", "00000"}
      [] tool = "get-city-details" -> {Undefined, "", "Paris"}
      [] tool = "get-country-data" -> {Undefined, "", "France"}
      [] OTHER -> {Undefined}

\* what the fetch does: rejects, resolves with a response, or never settles
Nets == {"fail", "ok", "hang"}

\* the payload of the response: not JSON at all, JSON null, a JSON object
\* without the expected members, [], the documented shape with data, the
\* documented shape with an empty first element, {places: []}
Bodies == {"notjson", "null", "object", "emptyarray", "expected", "sparse", "noplaces"}

\* !x for a string parameter
Falsy(x) == x = Undefined \/ x = ""

\* `${x}` in a template literal
Str(x) == IF x = Undefined THEN "undefined" ELSE x

\* U+2014, the dash of the city template (TLA+ strings are ASCII)
EmDash == "--"

TextItem(s) == [type |-> "text", text |-> s]

\* the handler's promise resolves with { content: items }
Result(items) == [kind |-> "result", content |-> items, message |-> ""]

\* the handler's promise rejects with an Error carrying message m
Fault(m) == [kind |-> "fault", content |-> << >>, message |-> m]

NoReturn == [kind |-> "none", content |-> << >>, message |-> ""]

FetchFailed == "fetch failed"
NotJson == "Unexpected token < in JSON at position 0"
NullRead == "Cannot read properties of null"
UndefinedRead == "Cannot read properties of undefined"
JoinMissing == "data.join is not a function"

\* await fetch(...); await response.json(): the fault it raises, "" if none
FetchJsonFault(net, body) ==
    IF net = "fail" THEN FetchFailed
    ELSE IF body = "notjson" THEN NotJson
    ELSE ""

Digit(d) == CASE d = 0 -> "0" [] d = 1 -> "1" [] d = 2 -> "2" [] d = 3 -> "3" [] d = 4 -> "4"
              [] d = 5 -> "5" [] d = 6 -> "6" [] d = 7 -> "7" [] d = 8 -> "8" [] OTHER -> "9"

RECURSIVE Dec(_)
Dec(n) == IF n < 10 THEN Digit(n) ELSE Dec(n \div 10) \o Digit(n % 10)

Pad3(n) == Digit(n \div 100) \o Digit((n \div 10) % 10) \o Digit(n % 10)

\* Number.prototype.toLocaleString() in the en-US locale
RECURSIVE toLocaleString(_)
toLocaleString(n) ==
    IF n < 1000 THEN Dec(n) ELSE toLocaleString(n \div 1000) \o "," \o Pad3(n % 1000)

\* sample upstream data
SampleJoke == "Chuck Norris counted to infinity. Twice."
SamplePlace(zip) ==
    IF zip = "90210" THEN [name |-> "Beverly Hills", state |-> "CA"]
    ELSE [name |-> "Holtsville", state |-> "NY"]
SampleCity == [display_name |-> "Paris, Ile-de-France, France", lat |-> "48.8534951", lon |-> "2.3483915"]
SampleCountry == [common |-> "France", hasCapital |-> TRUE, capital |-> "Paris", region |-> "Europe",
                  population |-> 67391582, png |-> "https://flagcdn.com/w320/fr.png"]
SparseCountry == [common |-> Undefined, hasCapital |-> FALSE, capital |-> Undefined, region |-> Undefined,
                  population |-> 0, png |-> Undefined]

\* x || fallback
OrElse(x, fallback) == IF Falsy(x) THEN fallback ELSE x

\* catch (error) { message = error instanceof Error ? error.message : ... }
CatchMessage(isError, m) == IF isError THEN m ELSE "An unknown error occurred"

\* ---- get-city-details ----
getCityDetailsGuard(city) == Falsy(city)

getCityDetailsTry(net, body) ==
    IF FetchJsonFault(net, body) # "" THEN Fault(FetchJsonFault(net, body))
    ELSE IF body = "null" THEN Fault(NullRead)
    ELSE IF body \in {"object", "emptyarray", "noplaces"} THEN Fault("City not found")
    ELSE IF body = "expected"
         THEN Result(<<TextItem(SampleCity.display_name \o " " \o EmDash \o " Coordinates: ("
                                \o SampleCity.lat \o ", " \o SampleCity.lon \o ")")>>)
    ELSE Result(<<TextItem(Str(Undefined) \o " " \o EmDash \o " Coordinates: ("
                           \o Str(Undefined) \o ", " \o Str(Undefined) \o ")")>>)

getCityDetails(city, net, ok, body) ==
    IF getCityDetailsGuard(city) THEN Result(<<TextItem("Please provide a city name.")>>)
    ELSE LET r == getCityDetailsTry(net, body)
         IN  IF r.kind = "fault"
             THEN Result(<<TextItem("Error fetching city info: " \o CatchMessage(TRUE, r.message))>>)
             ELSE r

\* ---- get-zip-info ----
getZipInfoGuard(zip) == Falsy(zip)

\* a mutant: the status of the response is not looked at
getZipInfoTryNoStatus(zip, net, ok, body) ==
    IF net = "fail" THEN Fault(FetchFailed)
    ELSE IF body = "notjson" THEN Fault(NotJson)
    ELSE IF body = "null" THEN Fault(NullRead)
    ELSE IF body \in {"object", "emptyarray", "noplaces"} THEN Fault(UndefinedRead)
    ELSE IF body = "expected"
         THEN Result(<<TextItem(Str(zip) \o ": " \o SamplePlace(zip).name \o ", " \o SamplePlace(zip).state)>>)
    ELSE Result(<<TextItem(Str(zip) \o ": " \o Str(Undefined) \o ", " \o Str(Undefined))>>)

getZipInfoTry(zip, net, ok, body) ==
    IF net = "fail" THEN Fault(FetchFailed)
    ELSE IF ~ok THEN Fault("ZIP code not found")
    ELSE IF body = "notjson" THEN Fault(NotJson)
    ELSE IF body = "null" THEN Fault(NullRead)
    ELSE IF body \in {"object", "emptyarray", "noplaces"} THEN Fault(UndefinedRead)
    ELSE IF body = "expected"
         THEN Result(<<TextItem(Str(zip) \o ": " \o SamplePlace(zip).name \o ", " \o SamplePlace(zip).state)>>)
    ELSE Result(<<TextItem(Str(zip) \o ": " \o Str(Undefined) \o ", " \o Str(Undefined))>>)

getZipInfo(zip, net, ok, body) ==
    IF getZipInfoGuard(zip) THEN Result(<<TextItem("Please provide a ZIP code.")>>)
    ELSE LET r == getZipInfoTry(zip, net, ok, body)
         IN  IF r.kind = "fault"
             THEN Result(<<TextItem("Error fetching data for ZIP code " \o Str(zip) \o ": "
                                    \o CatchMessage(TRUE, r.message))>>)
             ELSE r

\* ---- get-chuck-joke ----
getChuckJoke(arg, net, ok, body) ==
    IF FetchJsonFault(net, body) # "" THEN Fault(FetchJsonFault(net, body))
    ELSE IF body = "null" THEN Fault(NullRead)
    ELSE Result(<<TextItem(IF body = "expected" THEN SampleJoke ELSE Undefined)>>)

\* ---- get-chuck-categories ----
getChuckCategories(arg, net, ok, body) ==
    IF FetchJsonFault(net, body) # "" THEN Fault(FetchJsonFault(net, body))
    ELSE IF body = "null" THEN Fault(NullRead)
    ELSE IF body \in {"object", "noplaces"} THEN Fault(JoinMissing)
    ELSE IF body = "emptyarray" THEN Result(<<TextItem("")>>)
    ELSE IF body = "expected" THEN Result(<<TextItem("animal" \o ", " \o "career")>>)
    ELSE Result(<<TextItem("")>>)

\* ---- get-dad-joke ----
getDadJoke(arg, net, ok, body) ==
    IF FetchJsonFault(net, body) # "" THEN Fault(FetchJsonFault(net, body))
    ELSE IF body = "null" THEN Fault(NullRead)
    ELSE Result(<<TextItem(IF body = "expected" THEN SampleJoke ELSE Undefined)>>)

\* ---- get-country-data ----
\* the handler has no guard: it fetches whatever params.name is
getCountryDataGuard(name) == FALSE

getCountryData(name, net, ok, body) ==
    IF FetchJsonFault(net, body) # "" THEN Fault(FetchJsonFault(net, body))
    ELSE IF body \notin {"expected", "sparse"}
         THEN Result(<<TextItem("No data found for " \o Str(name))>>)
    ELSE LET country == IF body = "expected" THEN SampleCountry ELSE SparseCountry
         IN  Result(<<TextItem(OrElse(country.common, "No name found")),
                      TextItem(IF country.hasCapital THEN country.capital ELSE "No capital found"),
                      TextItem(OrElse(country.region, "No region found")),
                      TextItem(IF country.population # 0 THEN toLocaleString(country.population)
                               ELSE "No population found"),
                      TextItem(OrElse(country.png, "No flag found"))>>)

\* ---- get-yo-mama-joke ----
getYoMamaJoke(arg, net, ok, body) ==
    IF FetchJsonFault(net, body) # "" THEN Fault(FetchJsonFault(net, body))
    ELSE IF body = "null" THEN Fault(NullRead)
    ELSE Result(<<TextItem(IF body = "expected" THEN SampleJoke ELSE Undefined)>>)

\* whether the handler returns before its fetch
ReturnsEarly(tool, arg) ==
    CASE tool = "get-zip-info" -> getZipInfoGuard(arg)
      [] tool = "get-city-details" -> getCityDetailsGuard(arg)
      [] tool = "get-country-data" -> getCountryDataGuard(arg)
      [] OTHER -> FALSE

\* the handler registered under the tool's name, run to its end
Handler(tool, arg, net, ok, body) ==
    CASE tool = "get-chuck-joke" -> getChuckJoke(arg, net, ok, body)
      [] tool = "get-chuck-categories" -> getChuckCategories(arg, net, ok, body)
      [] tool = "get-dad-joke" -> getDadJoke(arg, net, ok, body)
      [] tool = "get-yo-mama-joke" -> getYoMamaJoke(arg, net, ok, body)
      [] tool = "get-country-data" -> getCountryData(arg, net, ok, body)
      [] tool = "get-zip-info" -> getZipInfo(arg, net, ok, body)
      [] OTHER -> getCityDetails(arg, net, ok, body)

\* how a handler's promise can settle: "result" or "fault"
HandlerOutcomes ==
    {Handler(t, a, n, o, b).kind :
        t \in Tools, a \in {Undefined, "", "90210", "Paris", "France"},
        n \in Nets \ {"hang"}, o \in BOOLEAN, b \in Bodies}

(***************************************************************************)
(* Part 1: sessions.                                                       *)
(***************************************************************************)

\* the session ids the transports may draw
Ids == 1..MaxConns

\* a sessionId query value that no transport ever carried
UnknownId == 0

\* "no transport": transports[sessionId] === undefined, server._transport
\* === undefined
NoConn == 0

ConnIdx == 1..Len(conns)

\* the session ids of all transports constructed so far
UsedIds == {conns[c].sid : c \in ConnIdx}

\* a mutant: the id generator may hand out an id again
NewSessionIdsReuse == Ids

\* new SSEServerTransport(...).sessionId: a random UUID, an id that no
\* earlier transport carries.  The ids are opaque, so the model names the
\* k-th id drawn by counting down from MaxConns (a session id is then not
\* the index of its connection).
NewSessionIds == {MaxConns - Len(conns)} \ UsedIds

\* a mutant: removing one entry clears the whole lookup object
UnregisterAll(map, sid) == [k \in {} |-> NoConn]

\* a mutant: the key is kept and set to undefined
UnregisterTombstone(map, sid) == [k \in DOMAIN map \cup {sid} |-> IF k = sid THEN NoConn ELSE map[k]]

\* delete transports[sid]
Unregister(map, sid) == [k \in DOMAIN map \ {sid} |-> map[k]]

\* transports[sid] = transport
Register(map, sid, c) == [k \in DOMAIN map \cup {sid} |-> IF k = sid THEN c ELSE map[k]]

\* a mutant: a missing entry falls back to the transport the server holds
LookupFallback(map, sid) == IF sid \in DOMAIN map THEN map[sid] ELSE serverTransport

\* const transport = transports[sessionId]
Lookup(map, sid) == IF sid \in DOMAIN map THEN map[sid] ELSE NoConn

\* a mutant: the close listener is not installed before the await
ListenerInstalledLate == FALSE

\* res.on("close", ...) runs before the route's first await
ListenerInstalled == TRUE

Init ==
    /\ conns = << >>
    /\ transports = [k \in {} |-> NoConn]
    /\ serverTransport = NoConn
    /\ reqs = << >>
    /\ sse = << >>
    /\ inv = [tool |-> "none", arg |-> "#undefined", net |-> "ok", ok |-> TRUE,
              body |-> "expected", pc |-> "idle", outbound |-> 0,
              ret |-> [kind |-> "none", content |-> << >>, message |-> ""]]

\* app.get("/sse"): up to the route's await.  The transport is constructed
\* with a new session id, stored in the lookup object, the close listener is
\* installed, and server.connect(transport) makes it the server's transport.
SseOpen(id) ==
    /\ Len(conns) < MaxConns
    /\ id \in NewSessionIds
    /\ conns' = Append(conns, [sid |-> id, open |-> TRUE, pc |-> "connecting",
                               listener |-> ListenerInstalled])
    /\ transports' = Register(transports, id, Len(conns) + 1)
    /\ serverTransport' = Len(conns) + 1
    /\ sse' = Append(sse, {})
    /\ UNCHANGED <<reqs, inv>>

\* await server.connect(transport) resolves
ConnectDone(c) ==
    /\ c \in ConnIdx
    /\ conns[c].pc = "connecting"
    /\ conns' = [conns EXCEPT ![c].pc = "connected"]
    /\ UNCHANGED <<transports, serverTransport, reqs, sse, inv>>

\* await server.connect(transport) rejects
ConnectFail(c) ==
    /\ c \in ConnIdx
    /\ conns[c].pc = "connecting"
    /\ conns' = [conns EXCEPT ![c].pc = "failed"]
    /\ UNCHANGED <<transports, serverTransport, reqs, sse, inv>>

\* the connection of transport c closes: the "close" listener of the route
\* deletes the entry, and the transport's onclose clears the server's transport
Close(c) ==
    /\ c \in ConnIdx
    /\ conns[c].open
    /\ conns' = [conns EXCEPT ![c].open = FALSE]
    /\ transports' = IF conns[c].listener THEN Unregister(transports, conns[c].sid)
                     ELSE transports
    /\ serverTransport' = NoConn
    /\ UNCHANGED <<reqs, sse, inv>>

\* handlePostMessage on a transport whose connect was rejected either takes the
\* message or answers 500; on any other registered transport it takes it
MayRefuse(c) == conns[c].pc = "failed"

\* app.post("/jokes"): the transport is looked up under the sessionId of the
\* query.  Found: handlePostMessage answers 202 and hands the message to the
\* server, whose tool handler runs up to its fetch.  Not found: 400 with a
\* plain-text body.
JokesPost(sid, taken) ==
    /\ Len(reqs) < MaxPosts
    /\ LET transport == Lookup(transports, sid)
       IN  IF transport # NoConn
           THEN /\ taken \/ MayRefuse(transport)
                /\ reqs' = Append(reqs,
                      IF taken
                      THEN [sid |-> sid, via |-> transport, status |-> 202, body |-> "Accepted",
                            pc |-> "fetch"]
                      ELSE [sid |-> sid, via |-> transport, status |-> 500,
                            body |-> "SSE connection not established", pc |-> "none"])
           ELSE /\ taken
                /\ reqs' = Append(reqs,
                      [sid |-> sid, via |-> NoConn, status |-> 400,
                       body |-> "No transport found for sessionId", pc |-> "none"])
    /\ UNCHANGED <<conns, transports, serverTransport, sse, inv>>

\* the channel the server writes the response of a request on: the transport
\* that server.connect stored last
ResponseChannel(req) == serverTransport

\* the fetch of request r's handler settles and the handler returns or rejects
\* (HandlerOutcomes); either way the server sends a response for the request
\* over the transport it holds, if it holds one.  A handler whose upstream
\* never answers stays at "fetch".
HandlerSettle(r) ==
    /\ r \in 1..Len(reqs)
    /\ reqs[r].pc = "fetch"
    /\ HandlerOutcomes # {}
    /\ reqs' = [reqs EXCEPT ![r].pc = "done"]
    /\ sse' = IF ResponseChannel(reqs[r]) # NoConn
              THEN [sse EXCEPT ![ResponseChannel(reqs[r])] = @ \cup {r}]
              ELSE sse
    /\ UNCHANGED <<conns, transports, serverTransport, inv>>

Next ==
    \/ \E id \in Ids : SseOpen(id)
    \/ \E c \in 1..MaxConns : ConnectDone(c)
    \/ \E c \in 1..MaxConns : ConnectFail(c)
    \/ \E c \in 1..MaxConns : Close(c)
    \/ \E sid \in Ids \cup {UnknownId}, taken \in BOOLEAN : JokesPost(sid, taken)
    \/ \E r \in 1..MaxPosts : HandlerSettle(r)

Spec == Init /\ [][Next]_vars

(***************************************************************************)
(* Properties of the session map (checked under Spec).                     *)
(***************************************************************************)

ReqIdx == 1..Len(reqs)

\* C1: the response of a request posted with sessionId S is written on the
\* channel registered under S: never on the channel of another session, and,
\* when the request has settled and S's connection is still open, on S's.
C1_ResultOnOwnChannel ==
    /\ \A c \in ConnIdx : \A r \in sse[c] : reqs[r].via = c /\ conns[c].sid = reqs[r].sid
    /\ \A r \in ReqIdx :
          (reqs[r].pc = "done" /\ conns[reqs[r].via].open) => r \in sse[reqs[r].via]

\* the request appended by this step, if the step is a post
Posted(sid) ==
    /\ Len(reqs') = Len(reqs) + 1
    /\ reqs'[Len(reqs')].sid = sid

C3_OneChannelNoReuse ==
    /\ \A s \in DOMAIN transports :
          /\ transports[s] \in ConnIdx
          /\ conns[transports[s]].sid = s
          /\ {c \in ConnIdx : conns[c].open /\ conns[c].sid = s} = {transports[s]}
    /\ \A c \in ConnIdx : ~conns[c].open => conns[c].sid \notin DOMAIN transports

\* a session was closed and a connection opened after it is registered
C3_Witness ==
    \E c1, c2 \in ConnIdx :
        /\ c1 < c2
        /\ ~conns[c1].open
        /\ conns[c1].sid \notin DOMAIN transports
        /\ conns[c2].open
        /\ conns[c2].sid \in DOMAIN transports

\* C4: the close of one connection leaves the entry of every other session as
\* it was, and a post for a registered session is handed to the transport
\* registered under that session id.
C4_CloseLeavesOthers ==
    [][/\ \A c \in ConnIdx :
             (conns[c].open /\ ~conns'[c].open) =>
                \A s \in DOMAIN transports \ {conns[c].sid} :
                    s \in DOMAIN transports' /\ transports'[s] = transports[s]
        /\ \A sid \in DOMAIN transports :
             Posted(sid) =>
                /\ reqs'[Len(reqs')].via = transports[sid]
                /\ conns[reqs'[Len(reqs')].via].sid = sid]_vars

\* one session is closed, another is still registered and a message posted
\* for it was taken by its transport
C4_Witness ==
    \E a, b \in ConnIdx : \E r \in ReqIdx :
        /\ ~conns[a].open
        /\ conns[b].open
        /\ conns[b].sid \in DOMAIN transports
        /\ reqs[r].via = b
        /\ reqs[r].status = 202
        /\ reqs[r].pc = "done"
        /\ sse[b] = {}

\* C5: unregistering twice gives the map that unregistering once gives, and
\* unregistering an absent session id gives the map back unchanged.
C5_UnregisterIdempotent ==
    \A s \in Ids \cup {UnknownId} :
        /\ Unregister(Unregister(transports, s), s) = Unregister(transports, s)
        /\ s \notin DOMAIN transports => Unregister(transports, s) = transports
        /\ DOMAIN Unregister(transports, s) = DOMAIN transports \ {s}

\* the close handler has run for one session while another is registered
C5_Witness ==
    \E a, b \in ConnIdx :
        /\ ~conns[a].open
        /\ conns[a].sid \notin DOMAIN transports
        /\ conns[b].sid \in DOMAIN transports

\* C8: while a handler of one session is suspended at its fetch, a settled
\* request of another, still registered session has its result on the
\* channel of that session.
C8_HungCallStallsOnlyItsSession ==
    \A a, b \in ReqIdx :
        (/\ reqs[a].pc = "fetch"
         /\ reqs[b].pc = "done"
         /\ reqs[a].sid # reqs[b].sid
         /\ reqs[b].sid \in DOMAIN transports) => b \in sse[reqs[b].via]

\* C10: the keys of the transports map are the session ids of the connections
\* that are open, whatever became of server.connect, and each key maps to the
\* transport of that connection.
C10_MapIsOpenSessions ==
    /\ DOMAIN transports = {conns[c].sid : c \in {d \in ConnIdx : conns[d].open}}
    /\ \A s \in DOMAIN transports : conns[transports[s]].sid = s

\* a connection whose connect was rejected has closed, and a message was taken
\* for a session whose connect has not yet settled
C10_Witness ==
    \E a, b \in ConnIdx : \E r \in ReqIdx :
        /\ ~conns[a].open
        /\ conns[a].pc = "failed"
        /\ conns[b].open
        /\ conns[b].pc = "connecting"
        /\ reqs[r].via = b
        /\ reqs[r].status = 202

(***************************************************************************)
(* Part 2, steps: one tool invocation, from the call of the handler to its *)
(* return.                                                                 *)
(***************************************************************************)

InitTools ==
    /\ conns = << >>
    /\ transports = [k \in {} |-> NoConn]
    /\ serverTransport = NoConn
    /\ reqs = << >>
    /\ sse = << >>
    /\ \E t \in Tools : \E a \in ArgsOf(t) : \E n \in Nets, o \in BOOLEAN, b \in Bodies :
          inv = [tool |-> t, arg |-> a, net |-> n, ok |-> o, body |-> b,
                 pc |-> "start", outbound |-> 0, ret |-> NoReturn]

\* the handler runs to its first await: it returns at once when its guard
\* on the argument fires, and otherwise issues its one fetch
ToolCall ==
    /\ inv.pc = "start"
    /\ inv' = IF ReturnsEarly(inv.tool, inv.arg)
              THEN [inv EXCEPT !.pc = "done",
                               !.ret = Handler(inv.tool, inv.arg, inv.net, inv.ok, inv.body)]
              ELSE [inv EXCEPT !.pc = "fetch", !.outbound = 1]
    /\ UNCHANGED sessionVars

\* the fetch settles and the handler runs to its return (or its rejection)
ToolResume ==
    /\ inv.pc = "fetch"
    /\ inv.net # "hang"
    /\ inv' = [inv EXCEPT !.pc = "done",
                          !.ret = Handler(inv.tool, inv.arg, inv.net, inv.ok, inv.body)]
    /\ UNCHANGED sessionVars

NextTools ==
    \/ ToolCall
    \/ ToolResume

SpecTools == InitTools /\ [][NextTools]_vars

(***************************************************************************)
(* Properties of the tool handlers (checked under SpecTools).              *)
(***************************************************************************)

\* the messages of the faults a handler can meet
Messages == {FetchFailed, NotJson, NullRead, UndefinedRead, JoinMissing,
             "ZIP code not found", "City not found", "An unknown error occurred"}

\* a text that describes an error
DescribesError(text) ==
    \E m \in Messages :
        \/ text = "Error fetching city info: " \o m
        \/ text = "Error fetching data for ZIP code " \o Str(inv.arg) \o ": " \o m
        \/ text = "Error: " \o m
        \/ text = m

\* the outbound call of the invocation failed: the fetch was rejected, the
\* status was not a success, or the payload was not JSON
OutboundFailed == inv.net = "fail" \/ ~inv.ok \/ inv.body = "notjson"

\* C6: a handler whose outbound call failed returns a result with a text that
\* describes the error; its promise is not rejected.
C6_FailureBecomesText ==
    (inv.pc = "done" /\ inv.outbound = 1 /\ OutboundFailed) =>
        /\ inv.ret.kind = "result"
        /\ \E i \in 1..Len(inv.ret.content) : DescribesError(inv.ret.content[i].text)

RequiredArgTools == {"get-zip-info", "get-city-details", "get-country-data"}

GuidanceOf(tool) ==
    CASE tool = "get-zip-info" -> {"Please provide a ZIP code."}
      [] tool = "get-city-details" -> {"Please provide a city name."}
      [] OTHER -> {"Please provide a country name.", "Please provide a name."}

\* C7: a handler with a required argument, called without it (or with an
\* empty one), issues no outbound call and returns a result whose text asks
\* for the argument.
C7_MissingArgumentGuidance ==
    (inv.tool \in RequiredArgTools /\ Falsy(inv.arg) /\ inv.pc # "start") =>
        /\ inv.outbound = 0
        /\ inv.pc = "done"
        /\ inv.ret.kind = "result"
        /\ \E i \in 1..Len(inv.ret.content) : inv.ret.content[i].text \in GuidanceOf(inv.tool)

\* the text the ZIP lookup is to return, by the case of the invocation
ZipTexts ==
    IF Falsy(inv.arg) THEN {"Please provide a ZIP code."}
    ELSE IF inv.net = "fail" \/ ~inv.ok
            \/ inv.body \in {"notjson", "null", "object", "emptyarray", "noplaces"}
         THEN {"Error fetching data for ZIP code " \o inv.arg \o ": " \o m : m \in Messages}
    ELSE IF inv.body = "expected"
         THEN {inv.arg \o ": " \o SamplePlace(inv.arg).name \o ", " \o SamplePlace(inv.arg).state}
    ELSE {inv.arg \o ": undefined, undefined"}

\* C9: get-zip-info returns exactly one text item: the request for a ZIP code
\* when zip is missing or empty; "Error fetching data for ZIP code <zip>:
\* <message>" when the status is not ok or anything fails up to reading
\* places[0]; "<zip>: <place name>, <state abbreviation>" otherwise.
C9_ZipInfoByCase ==
    (inv.tool = "get-zip-info" /\ inv.pc = "done") =>
        /\ inv.ret.kind = "result"
        /\ Len(inv.ret.content) = 1
        /\ inv.ret.content[1].type = "text"
        /\ inv.ret.content[1].text \in ZipTexts

\* zip 90210 against an upstream answering Beverly Hills / CA
C9_Witness ==
    /\ inv.tool = "get-zip-info"
    /\ inv.arg = "90210"
    /\ inv.net = "ok" /\ inv.ok /\ inv.body = "expected"
    /\ inv.pc = "done"
    /\ inv.outbound = 1
    /\ inv.ret = Result(<<TextItem("90210: Beverly Hills, CA")>>)

====
